---- MODULE Spec2Model ----
(***************************************************************************)
(* Model of the training-data pipeline of ai-training/train_silesia.py and *)
(* ai-training/train_real_model.py: chunk sampling, entropy averaging,     *)
(* type hint, codec race, label policy and the batch scan loops.           *)
(***************************************************************************)
EXTENDS Integers, Sequences, FiniteSets, TLC

VARIABLES
    script,       \* which training script runs: "silesia" or "real"
    dataset,      \* os.listdir of the dataset directory, as file records
    synthetic,    \* os.listdir of dataset/silesia/synthetic_compressed
    phase,        \* position of the script: "original", "synthetic", "train", "done", "aborted"
    idx,          \* number of directory entries the current loop has consumed
    X_features,   \* X_features / features: the feature vectors appended so far
    y_labels,     \* y_labels / labels: the labels appended so far
    error,        \* the exception that ended the run, "none" while there is none
    race,         \* locals of the last codec race: original, brotli_size, zstd_size
    codec_calls,  \* the codecs invoked by the last call of the label function
    reads,        \* the f.seek/f.read pairs of the last feature extraction
    rr,           \* a RaceResult handed to the decision logic alone
    decided,      \* the label the decision logic returned for rr, NoLabel before
    fname,        \* a filename handed to the type hint alone
    hinted        \* the hint computed for fname, NoHint before

vars == <<script, dataset, synthetic, phase, idx, X_features, y_labels, error,
          race, codec_calls, reads, rr, decided, fname, hinted>>

(***************************************************************************)
(* Bounds of the model.                                                    *)
(***************************************************************************)
MaxSize == 52       \* sizes of a RaceResult handed to the decision logic: 0..MaxSize
MaxK == 4           \* file sizes are k * (CHUNK_SIZE / 2) + d, k in 0..MaxK
MaxD == 1           \*                                          d in -MaxD..MaxD
MaxFiles == 2       \* directory entries of a batch run

CHUNK_SIZE == 16384

NoLabel == -1
NoHint == -1

Min(a, b) == IF a < b THEN a ELSE b
Max(a, b) == IF a > b THEN a ELSE b

(***************************************************************************)
(* Python floats.  `original * 0.95` and `zstd_size * 0.98` multiply an   *)
(* int by a binary64 literal and round the exact product to 53            *)
(* significant bits, ties to even.  The literal is Sig * 2^-53; Sig is    *)
(* held as five base-2^13 digits, least significant first, so that every  *)
(* intermediate value fits a 32-bit integer.                               *)
(***************************************************************************)
F095 == <<1638, 4915, 6553, 7372, 1>>     \* 0.95 = 0x1E666666666666 * 2^-53
F098 == <<3932, 3604, 2621, 7864, 1>>     \* 0.98 = 0x1F5C28F5C28F5C * 2^-53

\* 2^e for e in 0..12
Pow2(e) == <<1, 2, 4, 8, 16, 32, 64, 128, 256, 512, 1024, 2048, 4096>>[e + 1]

\* The six base-2^13 digits of n * Sig, n < 2^17, least significant first:
\* schoolbook multiplication, t \div 8192 being the carry.
MulDigits(sig, n) ==
    LET t1 == n * sig[1]
        t2 == n * sig[2] + t1 \div 8192
        t3 == n * sig[3] + t2 \div 8192
        t4 == n * sig[4] + t3 \div 8192
        t5 == n * sig[5] + t4 \div 8192
        t6 == t5 \div 8192
    IN  <<t1 % 8192, t2 % 8192, t3 % 8192, t4 % 8192, t5 % 8192, t6>>

\* Bit j (from 0) of the number whose digits are D.
BitOf(D, j) == (D[(j \div 13) + 1] \div Pow2(j % 13)) % 2

RECURSIVE TopBit(_, _)
TopBit(D, j) == IF j = 0 \/ BitOf(D, j) = 1 THEN j ELSE TopBit(D, j - 1)

\* float(n) * literal, n an int with 0 <= n < 2^17: the exact product P * 2^-53
\* rounded to nearest, ties to even.  The result is given by its integer
\* part and by whether a fractional part is left, which is all a comparison
\* with an int reads.
FMul(n, sig) ==
    IF n = 0 THEN [int |-> 0, frac |-> FALSE]
    ELSE LET D == MulDigits(sig, n)
             s == TopBit(D, 77) + 1 - 53          \* the low bits rounded away
             half == s > 0 /\ BitOf(D, s - 1) = 1
             sticky == \E j \in 0..(s - 2) : BitOf(D, j) = 1
             up == half /\ (sticky \/ BitOf(D, s) = 1)
             allOnes == \A j \in s..52 : BitOf(D, j) = 1
             anyOne == \E j \in s..52 : BitOf(D, j) = 1
             ip == (D[5] \div 2) + D[6] * 4096
         IN  [int |-> IF up /\ allOnes THEN ip + 1 ELSE ip,
              frac |-> IF up THEN ~allOnes ELSE anyOne]

\* Python compares an int with a float exactly.
IntGT(k, f) == k > f.int
IntLT(k, f) == k < f.int \/ (k = f.int /\ f.frac)

(***************************************************************************)
(* The label policy.  Labels: 0 = Brotli (AlgoA), 1 = Zstd (AlgoB),        *)
(* 2 = None.                                                               *)
(***************************************************************************)
\* A plausible slip of LabelDecision: `>=` for `>` in the 5% test.
LabelDecisionGeq(original, brotli_size, zstd_size) ==
    IF original = 0 THEN 2
    ELSE IF ~IntLT(Min(brotli_size, zstd_size), FMul(original, F095)) THEN 2
    ELSE IF IntLT(brotli_size, FMul(zstd_size, F098)) THEN 0
    ELSE 1

\* A plausible slip of LabelDecision: the 5% test left out.
LabelDecisionNoFloor(original, brotli_size, zstd_size) ==
    IF original = 0 THEN 2
    ELSE IF IntLT(brotli_size, FMul(zstd_size, F098)) THEN 0
    ELSE 1

\* train_silesia.py get_best_label, from `original = len(data)` on, the two
\* compressed sizes given.
LabelDecision(original, brotli_size, zstd_size) ==
    IF original = 0 THEN 2
    ELSE IF IntGT(Min(brotli_size, zstd_size), FMul(original, F095)) THEN 2
    ELSE IF IntLT(brotli_size, FMul(zstd_size, F098)) THEN 0
    ELSE 1

\* train_real_model.py get_best_algo, from `original_size = len(data)` on.
AlgoDecision(original_size, brotli_size, zstd_size) ==
    IF original_size = 0 THEN 2
    ELSE LET min_size == Min(brotli_size, zstd_size)
         IN  IF IntGT(min_size, FMul(original_size, F095)) THEN 2
             ELSE IF IntLT(brotli_size, FMul(zstd_size, F098)) THEN 0
             ELSE 1

(***************************************************************************)
(* Filenames are sequences of one-character strings.                       *)
(***************************************************************************)
UpperChars == <<"A", "B", "C", "D", "E", "F", "G", "H", "I", "J", "K", "L", "M",
                "N", "O", "P", "Q", "R", "S", "T", "U", "V", "W", "X", "Y", "Z">>
LowerChars == <<"a", "b", "c", "d", "e", "f", "g", "h", "i", "j", "k", "l", "m",
                "n", "o", "p", "q", "r", "s", "t", "u", "v", "w", "x", "y", "z">>

\* str.lower(), one character
LowerChar(c) ==
    IF \E i \in 1..26 : UpperChars[i] = c
    THEN LowerChars[CHOOSE i \in 1..26 : UpperChars[i] = c]
    ELSE c

\* A slip of str.lower(): the name is left as it is.
LowerMissing(name) == name

\* str.lower()
Lower(name) == [i \in 1..Len(name) |-> LowerChar(name[i])]

\* name.split('.')[-1]: what follows the last dot, the whole name without one
LastField(name) ==
    LET dots == {i \in 1..Len(name) : name[i] = "."}
    IN  IF dots = {} THEN name
        ELSE LET last == CHOOSE i \in dots : \A j \in dots : j <= i
             IN  SubSeq(name, last + 1, Len(name))

\* str.endswith
EndsWith(name, suffix) ==
    /\ Len(name) >= Len(suffix)
    /\ SubSeq(name, Len(name) - Len(suffix) + 1, Len(name)) = suffix

TextExts == {<<"t", "x", "t">>, <<"c", "s", "v">>, <<"j", "s">>, <<"m", "d">>}
MediaExts == {<<"j", "p", "g">>, <<"m", "p", "4">>, <<"z", "i", "p">>}
TextNames ==
    { <<"d", "i", "c", "k", "e", "n", "s">>, <<"s", "a", "m", "b", "a">>,
      <<"w", "e", "b", "s", "t", "e", "r">>, <<"x", "m", "l">> }
MediaNames == {<<"m", "r">>}
ZstSuffix == <<".", "z", "s", "t">>

\* train_real_model.py, "Hint Feature"
RealHint(filename) ==
    LET ext == Lower(LastField(filename))
        hint0 == 0
        hint1 == IF ext \in TextExts THEN 1 ELSE hint0
        hint2 == IF ext \in MediaExts THEN 2 ELSE hint1
    IN  hint2

\* train_silesia.py extract_features, "Type Hint"; os.path.basename of
\* os.path.join(dir, filename) is filename
SilesiaHint(filename) ==
    LET name == Lower(filename)
        hint0 == 0
        hint1 == IF name \in TextNames THEN 1 ELSE hint0
        hint2 == IF EndsWith(name, ZstSuffix) \/ name \in MediaNames THEN 2 ELSE hint1
    IN  hint2

(***************************************************************************)
(* Files.  A directory entry is a record                                   *)
(*   name      the filename                                                *)
(*   kind      "file", "dir", or "missing" (listed, gone before it is used)*)
(*   size      the length of the content in bytes                          *)
(*   readable  whether open(path, 'rb') succeeds                           *)
(*   brotli    what brotli.compress gives on the content: the compressed   *)
(*             size, or CodecRaises                                        *)
(*   zstd      the same for ZstdCompressor(level=3).compress               *)
(* The content is its bytes 0..size-1; a chunk is the range [lo, hi) of    *)
(* the offsets a read returned.                                            *)
(***************************************************************************)
CodecRaises == -1
Unset == -2

\* f.read(n) with the file position at pos: the bytes up to the end of the
\* file, none at or after it
ReadAt(file_size, pos, n) ==
    [lo |-> pos, hi |-> Max(pos, Min(pos + n, file_size))]

IsEmpty(chunk) == chunk.hi = chunk.lo
ChunkLen(chunk) == chunk.hi - chunk.lo

\* A slip of SampleChunks: the tail seeks where the middle does.
SampleChunksTailFromMid(file_size) ==
    << ReadAt(file_size, 0, CHUNK_SIZE),
       ReadAt(file_size, Max(0, file_size \div 2), CHUNK_SIZE),
       ReadAt(file_size, Max(0, file_size \div 2), CHUNK_SIZE) >>

\* A slip of SampleChunks: the middle is centred on the midpoint.
SampleChunksMidCentred(file_size) ==
    << ReadAt(file_size, 0, CHUNK_SIZE),
       ReadAt(file_size, Max(0, file_size \div 2 - CHUNK_SIZE \div 2), CHUNK_SIZE),
       ReadAt(file_size, Max(0, file_size - CHUNK_SIZE), CHUNK_SIZE) >>

\* train_silesia.py extract_features, the three reads: head, mid, tail
SampleChunks(file_size) ==
    << ReadAt(file_size, 0, CHUNK_SIZE),
       ReadAt(file_size, Max(0, file_size \div 2), CHUNK_SIZE),
       ReadAt(file_size, Max(0, file_size - CHUNK_SIZE), CHUNK_SIZE) >>

\* A slip of RealChunks: the tail seeks to the end of the file.
RealChunksTailAtEnd(file_size) ==
    << ReadAt(file_size, 0, 16384),
       ReadAt(file_size, Max(0, file_size \div 2), 16384),
       ReadAt(file_size, Max(0, file_size), 16384) >>

\* train_real_model.py main loop, the three reads
RealChunks(file_size) ==
    << ReadAt(file_size, 0, 16384),
       ReadAt(file_size, Max(0, file_size \div 2), 16384),
       ReadAt(file_size, Max(0, file_size - 16384), 16384) >>

(***************************************************************************)
(* Entropy.  The Shannon entropy of a non-empty chunk is a real number the *)
(* model does not compute: it is kept as the term H(chunk).  A sum of     *)
(* entropies is the sequence of its terms in the order they are added (0   *)
(* is the empty sum), and a quotient sum / den is the record of both.      *)
(***************************************************************************)
\* train_silesia.py calculate_entropy
calculate_entropy(data) == IF IsEmpty(data) THEN <<>> ELSE <<data>>

\* train_real_model.py get_entropy
get_entropy(data) == IF IsEmpty(data) THEN <<>> ELSE <<data>>

\* sum(entropies)
RECURSIVE SumOf(_)
SumOf(entropies) ==
    IF entropies = <<>> THEN <<>> ELSE Head(entropies) \o SumOf(Tail(entropies))

\* A slip of AvgEntropy: no `if entropies else 0`, so 0 / 0 for no chunk.
AvgEntropyNoGuard(chunks) ==
    LET kept == SelectSeq(chunks, LAMBDA c : ~IsEmpty(c))
        entropies == [i \in 1..Len(kept) |-> calculate_entropy(kept[i])]
    IN  [sum |-> SumOf(entropies), den |-> Len(entropies)]

\* train_silesia.py extract_features, "Calculate Average Entropy"
AvgEntropy(chunks) ==
    LET kept == SelectSeq(chunks, LAMBDA c : ~IsEmpty(c))
        entropies == [i \in 1..Len(kept) |-> calculate_entropy(kept[i])]
    IN  IF Len(entropies) > 0
        THEN [sum |-> SumOf(entropies), den |-> Len(entropies)]
        ELSE [sum |-> <<>>, den |-> 1]

\* train_real_model.py main loop, "Combine entropies"
RealAvgEntropy(chunks) ==
    LET entropies == [i \in 1..Len(chunks) |-> get_entropy(chunks[i])]
    IN  [sum |-> SumOf(entropies), den |-> Len(entropies)]

\* The value of a quotient is 0 / den, den > 0.
IsZero(avg) == avg.sum = <<>> /\ avg.den > 0
\* Two quotients have the same value whatever the entropies are.
AvgEq(a, b) ==
    /\ a.den > 0 /\ b.den > 0
    /\ a.sum = b.sum
    /\ (a.sum = <<>> \/ a.den = b.den)

\* open(path, 'rb') and os.path.getsize(path) succeed
CanOpen(f) == f.kind = "file" /\ f.readable

NoFeatures == [avg_entropy |-> [sum |-> <<>>, den |-> 0], size_log |-> 0, hint |-> NoHint]

\* train_silesia.py extract_features.  size_log is math.log10 of the number
\* kept under log10_of.
extract_features(f) ==
    IF ~CanOpen(f)
    THEN [raised |-> "OSError", feats |-> NoFeatures, reads |-> <<>>]
    ELSE LET file_size == f.size
             chunks == SampleChunks(file_size)
             avg_entropy == AvgEntropy(chunks)
             size_log == [log10_of |-> file_size + 1]
             hint == SilesiaHint(f.name)
         IN  [raised |-> "none",
              feats |-> [avg_entropy |-> avg_entropy, size_log |-> size_log, hint |-> hint],
              reads |-> chunks]

\* train_real_model.py main loop, "1. EXTRACT FEATURES"
RealFeatures(f) ==
    IF ~CanOpen(f)
    THEN [raised |-> "OSError", feats |-> NoFeatures, reads |-> <<>>]
    ELSE LET file_size == f.size
             chunks == RealChunks(file_size)
             avg_entropy == RealAvgEntropy(chunks)
             hint == RealHint(f.name)
         IN  [raised |-> "none",
              feats |-> [avg_entropy |-> avg_entropy,
                         size_log |-> [log10_of |-> file_size + 1], hint |-> hint],
              reads |-> chunks]

NoRace == [original |-> Unset, brotli_size |-> Unset, zstd_size |-> Unset]

\* A slip of get_best_label: no `if original == 0: return 2`.
get_best_label_no_zero_check(f) ==
    IF ~CanOpen(f)
    THEN [raised |-> "OSError", label |-> NoLabel, race |-> NoRace, calls |-> <<>>]
    ELSE LET original == f.size
             brotli_size == IF f.brotli = CodecRaises THEN original ELSE f.brotli
         IN  IF f.zstd = CodecRaises
             THEN [raised |-> "ZstdError", label |-> NoLabel,
                   race |-> [original |-> original, brotli_size |-> brotli_size,
                             zstd_size |-> Unset],
                   calls |-> <<"brotli", "zstd">>]
             ELSE [raised |-> "none",
                   label |-> LabelDecision(original, brotli_size, f.zstd),
                   race |-> [original |-> original, brotli_size |-> brotli_size,
                             zstd_size |-> f.zstd],
                   calls |-> <<"brotli", "zstd">>]

\* train_silesia.py get_best_label: the codec race and its label.  Only the
\* Brotli call is inside a try.
get_best_label(f) ==
    IF ~CanOpen(f)
    THEN [raised |-> "OSError", label |-> NoLabel, race |-> NoRace, calls |-> <<>>]
    ELSE LET original == f.size
             brotli_size == IF f.brotli = CodecRaises THEN original ELSE f.brotli
         IN  IF original = 0
             THEN [raised |-> "none", label |-> 2,
                   race |-> [original |-> 0, brotli_size |-> Unset, zstd_size |-> Unset],
                   calls |-> <<>>]
             ELSE IF f.zstd = CodecRaises
             THEN [raised |-> "ZstdError", label |-> NoLabel,
                   race |-> [original |-> original, brotli_size |-> brotli_size,
                             zstd_size |-> Unset],
                   calls |-> <<"brotli", "zstd">>]
             ELSE [raised |-> "none",
                   label |-> LabelDecision(original, brotli_size, f.zstd),
                   race |-> [original |-> original, brotli_size |-> brotli_size,
                             zstd_size |-> f.zstd],
                   calls |-> <<"brotli", "zstd">>]

\* train_real_model.py get_best_algo
get_best_algo(f) ==
    IF ~CanOpen(f)
    THEN [raised |-> "OSError", label |-> NoLabel, race |-> NoRace, calls |-> <<>>]
    ELSE LET original_size == f.size
             brotli_size == IF f.brotli = CodecRaises THEN original_size ELSE f.brotli
         IN  IF original_size = 0
             THEN [raised |-> "none", label |-> 2,
                   race |-> [original |-> 0, brotli_size |-> Unset, zstd_size |-> Unset],
                   calls |-> <<>>]
             ELSE IF f.zstd = CodecRaises
             THEN [raised |-> "ZstdError", label |-> NoLabel,
                   race |-> [original |-> original_size, brotli_size |-> brotli_size,
                             zstd_size |-> Unset],
                   calls |-> <<"brotli", "zstd">>]
             ELSE [raised |-> "none",
                   label |-> AlgoDecision(original_size, brotli_size, f.zstd),
                   race |-> [original |-> original_size, brotli_size |-> brotli_size,
                             zstd_size |-> f.zstd],
                   calls |-> <<"brotli", "zstd">>]

(***************************************************************************)
(* The inputs of a run: what the dataset directories hold.                 *)
(***************************************************************************)
Sizes == {s \in {k * (CHUNK_SIZE \div 2) + d : k \in 0..MaxK, d \in (0 - MaxD)..MaxD} : s >= 0}

\* What a codec makes of s bytes: it raises, it halves them, or it adds a byte.
Outcomes(s) == {CodecRaises, s \div 2, s + 1}

FileNames ==
    { <<"d", "i", "c", "k", "e", "n", "s">>, <<"a", ".", "T", "X", "T">>,
      <<"x", ".", "z", "s", "t">> }

File(n, k, s, r, b, z) ==
    [name |-> n, kind |-> k, size |-> s, readable |-> r, brotli |-> b, zstd |-> z]

TxtName == <<"a", ".", "t", "x", "t">>
ZstName == <<"a", ".", "z", "s", "t">>
DirName == <<"s", "y", "n", "t", "h", "e", "t", "i", "c", "_", "c", "o", "m", "p", "r", "e", "s",
             "s", "e", "d">>

\* One entry of every size, name, readability and codec outcome.
RichFiles ==
    UNION { { File(n, "file", s, r, b, z) :
                n \in FileNames, r \in BOOLEAN, b \in Outcomes(s), z \in Outcomes(s) } :
            s \in Sizes }

\* The entries of a batch: a good file, an empty one, an unreadable one, one
\* on which Zstd raises, one on which Brotli raises, a directory and an entry
\* that is gone when the loop gets to it.
BatchFiles ==
    { File(TxtName, "file", 3 * CHUNK_SIZE, TRUE, CHUNK_SIZE, CHUNK_SIZE),
      File(TxtName, "file", 0, TRUE, 1, 1),
      File(TxtName, "file", CHUNK_SIZE, FALSE, CHUNK_SIZE, CHUNK_SIZE),
      File(TxtName, "file", CHUNK_SIZE, TRUE, CHUNK_SIZE \div 2, CodecRaises),
      File(TxtName, "file", CHUNK_SIZE, TRUE, CodecRaises, CHUNK_SIZE \div 2),
      File(DirName, "dir", 0, TRUE, CodecRaises, CodecRaises),
      File(TxtName, "missing", 0, FALSE, CodecRaises, CodecRaises) }

\* The entries of synthetic_compressed: written by generate_compressed_samples.
SyntheticFiles ==
    { File(ZstName, "file", CHUNK_SIZE, TRUE, CHUNK_SIZE + 1, CHUNK_SIZE + 1),
      File(ZstName, "file", CHUNK_SIZE, FALSE, CHUNK_SIZE + 1, CHUNK_SIZE + 1),
      File(ZstName, "file", CHUNK_SIZE, TRUE, CHUNK_SIZE + 1, CodecRaises) }

SeqsUpTo(S, n) == UNION { [1..m -> S] : m \in 0..n }

Listings == { <<f>> : f \in RichFiles } \cup SeqsUpTo(BatchFiles, MaxFiles)

RaceResults == [original : 0..MaxSize, sizeA : 0..MaxSize, sizeB : 0..MaxSize]
NoRaceResult == [original |-> 0, sizeA |-> 0, sizeB |-> 0]

NameStems ==
    { <<"d", "i", "c", "k", "e", "n", "s">>, <<"D", "i", "c", "k", "e", "n", "s">>,
      <<"D", "I", "C", "K", "E", "N", "S">>, <<"m", "r">>, <<"M", "R">>,
      <<"x", "m", "l">>, <<"X", "m", "l">>, <<"s", "a", "m", "b", "a">>,
      <<"w", "e", "b", "s", "t", "e", "r">>, <<"a">>, <<"A">>, <<"z", "i", "p">>,
      <<"T", "X", "T">>, <<"a", ".", "b">>, <<"x", ".", "t", "x", "t">> }
NameExts ==
    { <<>>, <<".", "t", "x", "t">>, <<".", "T", "X", "T">>, <<".", "T", "x", "t">>,
      <<".", "c", "s", "v">>, <<".", "j", "s">>, <<".", "J", "S">>, <<".", "m", "d">>,
      <<".", "j", "p", "g">>, <<".", "J", "P", "G">>, <<".", "m", "p", "4">>,
      <<".", "M", "p", "4">>, <<".", "z", "i", "p">>, <<".", "z", "s", "t">>,
      <<".", "Z", "S", "T">>, <<".", "z", "S", "t">>, <<".", "b", "i", "n">>, <<".">> }
Names == { stem \o ext : stem \in NameStems, ext \in NameExts }

(***************************************************************************)
(* The batch run of a training script over its dataset directories.        *)
(***************************************************************************)
Idle == /\ rr = NoRaceResult /\ decided = NoLabel /\ fname = <<>> /\ hinted = NoHint

Init ==
    /\ script \in {"silesia", "real"}
    /\ dataset \in Listings
    /\ synthetic \in IF script = "silesia" THEN SeqsUpTo(SyntheticFiles, 1) ELSE {<<>>}
    /\ phase = "original"
    /\ idx = 0
    /\ X_features = <<>>
    /\ y_labels = <<>>
    /\ error = "none"
    /\ race = NoRace
    /\ codec_calls = <<>>
    /\ reads = <<>>
    /\ Idle

\* train_silesia.py, the body both scan loops run on one path: no try around
\* either call, so whatever they raise ends the script.
SilesiaBody(f) ==
    LET fe == extract_features(f)
        lb == get_best_label(f)
    IN  IF fe.raised # "none"
        THEN /\ error' = fe.raised
             /\ UNCHANGED <<X_features, y_labels, race, codec_calls, reads>>
        ELSE IF lb.raised # "none"
        THEN /\ error' = lb.raised
             /\ reads' = fe.reads
             /\ race' = lb.race
             /\ codec_calls' = lb.calls
             /\ UNCHANGED <<X_features, y_labels>>
        ELSE /\ X_features' = Append(X_features, fe.feats)
             /\ y_labels' = Append(y_labels, lb.label)
             /\ reads' = fe.reads
             /\ race' = lb.race
             /\ codec_calls' = lb.calls
             /\ UNCHANGED error

\* train_silesia.py, one iteration of "Scan Original Silesia Files"
ScanOriginal ==
    /\ script = "silesia" /\ phase = "original" /\ error = "none"
    /\ idx < Len(dataset)
    /\ idx' = idx + 1
    /\ IF dataset[idx + 1].kind = "dir"
       THEN UNCHANGED <<X_features, y_labels, error, race, codec_calls, reads>>
       ELSE SilesiaBody(dataset[idx + 1])
    /\ UNCHANGED <<script, dataset, synthetic, phase, rr, decided, fname, hinted>>

\* train_silesia.py, the first loop is over: on to synthetic_compressed
EndOriginalScan ==
    /\ script = "silesia" /\ phase = "original" /\ error = "none"
    /\ idx = Len(dataset)
    /\ phase' = "synthetic"
    /\ idx' = 0
    /\ UNCHANGED <<script, dataset, synthetic, X_features, y_labels, error, race,
                   codec_calls, reads, rr, decided, fname, hinted>>

\* train_silesia.py, one iteration of "Scan Synthetic Compressed Files"
ScanSynthetic ==
    /\ script = "silesia" /\ phase = "synthetic" /\ error = "none"
    /\ idx < Len(synthetic)
    /\ idx' = idx + 1
    /\ SilesiaBody(synthetic[idx + 1])
    /\ UNCHANGED <<script, dataset, synthetic, phase, rr, decided, fname, hinted>>

\* train_silesia.py, "2. Train" and "3. Export": the samples go to the trainer
Train ==
    /\ script = "silesia" /\ phase = "synthetic" /\ error = "none"
    /\ idx = Len(synthetic)
    /\ phase' = "done"
    /\ UNCHANGED <<script, dataset, synthetic, idx, X_features, y_labels, error, race,
                   codec_calls, reads, rr, decided, fname, hinted>>

\* train_real_model.py, one iteration of the main loop: the features are
\* appended before the race is run
RealMainLoop ==
    /\ script = "real" /\ phase = "original" /\ error = "none"
    /\ idx < Len(dataset)
    /\ idx' = idx + 1
    /\ LET f == dataset[idx + 1]
           fe == RealFeatures(f)
           lb == get_best_algo(f)
       IN  IF f.kind # "file"
           THEN UNCHANGED <<X_features, y_labels, error, race, codec_calls, reads>>
           ELSE IF fe.raised # "none"
           THEN /\ error' = fe.raised
                /\ UNCHANGED <<X_features, y_labels, race, codec_calls, reads>>
           ELSE /\ X_features' = Append(X_features, fe.feats)
                /\ reads' = fe.reads
                /\ race' = lb.race
                /\ codec_calls' = lb.calls
                /\ IF lb.raised # "none"
                   THEN error' = lb.raised /\ UNCHANGED y_labels
                   ELSE y_labels' = Append(y_labels, lb.label) /\ UNCHANGED error
    /\ UNCHANGED <<script, dataset, synthetic, phase, rr, decided, fname, hinted>>

\* train_real_model.py, "TRAIN & EXPORT"
RealTrain ==
    /\ script = "real" /\ phase = "original" /\ error = "none"
    /\ idx = Len(dataset)
    /\ phase' = "done"
    /\ UNCHANGED <<script, dataset, synthetic, idx, X_features, y_labels, error, race,
                   codec_calls, reads, rr, decided, fname, hinted>>

Next ==
    \/ ScanOriginal
    \/ EndOriginalScan
    \/ ScanSynthetic
    \/ Train
    \/ RealMainLoop
    \/ RealTrain

Spec == Init /\ [][Next]_vars

(***************************************************************************)
(* The decision logic on its own, for every RaceResult within MaxSize.     *)
(***************************************************************************)
NoRun ==
    /\ dataset = <<>> /\ synthetic = <<>> /\ phase = "none" /\ idx = 0
    /\ X_features = <<>> /\ y_labels = <<>> /\ error = "none" /\ race = NoRace
    /\ codec_calls = <<>> /\ reads = <<>>

RunVars == <<dataset, synthetic, phase, idx, X_features, y_labels, error, race,
             codec_calls, reads>>

InitPolicy ==
    /\ script = "none"
    /\ NoRun
    /\ rr \in RaceResults
    /\ decided = NoLabel
    /\ fname = <<>> /\ hinted = NoHint

DecideSilesia ==
    /\ script = "none" /\ phase = "none" /\ fname = <<>>
    /\ script' = "silesia"
    /\ decided' = LabelDecision(rr.original, rr.sizeA, rr.sizeB)
    /\ UNCHANGED <<RunVars, rr, fname, hinted>>

DecideReal ==
    /\ script = "none" /\ phase = "none" /\ fname = <<>>
    /\ script' = "real"
    /\ decided' = AlgoDecision(rr.original, rr.sizeA, rr.sizeB)
    /\ UNCHANGED <<RunVars, rr, fname, hinted>>

NextPolicy == DecideSilesia \/ DecideReal

SpecPolicy == InitPolicy /\ [][NextPolicy]_vars

(***************************************************************************)
(* The type hint on its own, for every filename of Names.                  *)
(***************************************************************************)
InitHint ==
    /\ script = "none"
    /\ NoRun
    /\ rr = NoRaceResult /\ decided = NoLabel
    /\ fname \in Names
    /\ hinted = NoHint

HintSilesia ==
    /\ script = "none" /\ phase = "none" /\ fname # <<>>
    /\ script' = "silesia"
    /\ hinted' = SilesiaHint(fname)
    /\ UNCHANGED <<RunVars, rr, decided, fname>>

HintReal ==
    /\ script = "none" /\ phase = "none" /\ fname # <<>>
    /\ script' = "real"
    /\ hinted' = RealHint(fname)
    /\ UNCHANGED <<RunVars, rr, decided, fname>>

NextHint == HintSilesia \/ HintReal

SpecHint == InitHint /\ [][NextHint]_vars

(***************************************************************************)
(* Properties.                                                             *)
(***************************************************************************)
InLoop == phase \in {"original", "synthetic"} /\ idx > 0

\* The directory entry the last iteration of the running loop was given.
LastFile == IF phase = "synthetic" THEN synthetic[idx] ELSE dataset[idx]

\* The last iteration was given a regular file that can be opened.
LastReadable == InLoop /\ CanOpen(LastFile)

LastFeatures == X_features[Len(X_features)]
LastLabel == y_labels[Len(y_labels)]

HintOf(sc, name) == IF sc = "silesia" THEN SilesiaHint(name) ELSE RealHint(name)

\* The ordered policy of the specification, in exact arithmetic.
Policy(r) ==
    IF r.original = 0 THEN 2
    ELSE IF 100 * Min(r.sizeA, r.sizeB) > 95 * r.original THEN 2
    ELSE IF 100 * r.sizeA < 98 * r.sizeB THEN 0
    ELSE 1

\* C1: for every RaceResult the label function returns the label of the
\* ordered policy: None for an empty original, else None when the smaller
\* size is over 0.95 * original, else AlgoA when sizeA < 0.98 * sizeB, else
\* AlgoB; so the label is a function of the RaceResult.
C1_LabelIsPolicy == decided # NoLabel => decided = Policy(rr)

\* A tie that passes the 5% test has been labelled AlgoB.
C1_Witness == decided = 1 /\ rr.original > 0 /\ rr.sizeA = rr.sizeB

\* C9 as claimed: the codec a label names saves at least 5% itself.
C9_ChosenCodecSavesFivePercent ==
    /\ decided = 0 => 100 * rr.sizeA <= 95 * rr.original
    /\ decided = 1 => 100 * rr.sizeB <= 95 * rr.original

\* C9, amended: when a codec label is returned the smaller of the two sizes
\* saves at least 5%; AlgoA saves at least 5% itself; AlgoB either saves at
\* least 5% itself, or AlgoA does and is not 2% smaller than AlgoB.
C9_BestCodecSavesFivePercent ==
    decided \in {0, 1} =>
        /\ 100 * Min(rr.sizeA, rr.sizeB) <= 95 * rr.original
        /\ decided = 0 => 100 * rr.sizeA <= 95 * rr.original
        /\ decided = 1 =>
              \/ 100 * rr.sizeB <= 95 * rr.original
              \/ /\ 100 * rr.sizeA <= 95 * rr.original
                 /\ 100 * rr.sizeA >= 98 * rr.sizeB

\* AlgoB has been chosen although it saves less than 5%.
C9_Witness == decided = 1 /\ 100 * rr.sizeB > 95 * rr.original

\* The place of a letter in the alphabet, 0 for any other character.
LetterIndex(c) ==
    IF \E i \in 1..26 : c \in {UpperChars[i], LowerChars[i]}
    THEN CHOOSE i \in 1..26 : c \in {UpperChars[i], LowerChars[i]}
    ELSE 0

\* Two names that differ in letter case at most.
SameButCase(a, b) ==
    /\ Len(a) = Len(b)
    /\ \A i \in 1..Len(a) :
          \/ a[i] = b[i]
          \/ LetterIndex(a[i]) > 0 /\ LetterIndex(a[i]) = LetterIndex(b[i])

MatchesOneOf(name, entries) == \E e \in entries : SameButCase(name, e)

\* The hint the tables of the specification give a filename.
TableHint(sc, name) ==
    IF sc = "real"
    THEN IF MatchesOneOf(LastField(name), MediaExts) THEN 2
         ELSE IF MatchesOneOf(LastField(name), TextExts) THEN 1
         ELSE 0
    ELSE IF \/ MatchesOneOf(name, MediaNames)
            \/ /\ Len(name) >= 4
               /\ SameButCase(SubSeq(name, Len(name) - 3, Len(name)), ZstSuffix)
         THEN 2
         ELSE IF MatchesOneOf(name, TextNames) THEN 1
         ELSE 0

\* C8: the type hint is a total, case-insensitive function of the filename
\* into {0, 1, 2}: the hint is the one the table gives, Generic when no
\* entry matches, and every filename that differs from this one in letter
\* case only gets the same hint.
C8_HintTotalCaseInsensitive ==
    script # "none" /\ fname # <<>> =>
        /\ hinted \in {0, 1, 2}
        /\ hinted = TableHint(script, fname)
        /\ \A other \in Names : SameButCase(other, fname) => HintOf(script, other) = hinted

\* A filename with a capital letter has been given a hint other than Generic.
C8_Witness ==
    /\ hinted \in {1, 2}
    /\ \E i \in 1..Len(fname) : \E j \in 1..26 : fname[i] = UpperChars[j]

\* C2 as claimed: on a non-empty file a failure of either codec is not
\* fatal: the failing codec's size is the original size, the other's is its
\* compressed size, and the race returns a label.
C2_CodecFailureNotFatal ==
    ( /\ LastReadable
      /\ LastFile.size > 0
      /\ CodecRaises \in {LastFile.brotli, LastFile.zstd} ) =>
        /\ error = "none"
        /\ race.original = LastFile.size
        /\ race.brotli_size =
              IF LastFile.brotli = CodecRaises THEN LastFile.size ELSE LastFile.brotli
        /\ race.zstd_size =
              IF LastFile.zstd = CodecRaises THEN LastFile.size ELSE LastFile.zstd
        /\ y_labels # <<>>
        /\ LastLabel \in {0, 1, 2}

\* The number of entries of a listing that are files open() can read.
RECURSIVE ReadableCount(_)
ReadableCount(listing) ==
    IF listing = <<>> THEN 0
    ELSE (IF CanOpen(Head(listing)) THEN 1 ELSE 0) + ReadableCount(Tail(listing))

\* C3 as claimed: a file that cannot be read is skipped and the loop goes
\* on: the run is not aborted, and a finished run has one (feature vector,
\* label) pair for every readable file.
C3_UnreadableFileSkipped ==
    /\ ( /\ InLoop
         /\ LastFile.kind \in {"file", "missing"}
         /\ ~CanOpen(LastFile) ) => error = "none"
    /\ phase = "done" =>
          /\ Len(X_features) = ReadableCount(dataset) + ReadableCount(synthetic)
          /\ Len(y_labels) = Len(X_features)

\* C4: for a zero-length file, whatever its name, the feature vector is
\* [0, log10(1), hint], the hint being the type hint of the filename, the
\* label is None (2), and no codec has been invoked.
C4_ZeroLengthFile ==
    LastReadable /\ LastFile.size = 0 =>
        /\ error = "none"
        /\ X_features # <<>> /\ y_labels # <<>>
        /\ IsZero(LastFeatures.avg_entropy)
        /\ LastFeatures.size_log.log10_of = 1
        /\ LastFeatures.hint = HintOf(script, LastFile.name)
        /\ LastFeatures.hint \in {0, 1, 2}
        /\ LastLabel = 2
        /\ codec_calls = <<>>

\* A zero-length file with a Text hint has been labelled.
C4_Witness ==
    /\ LastReadable /\ LastFile.size = 0
    /\ y_labels # <<>> /\ X_features # <<>>
    /\ LastFeatures.hint = 1

InBounds(chunk, file_size) == 0 <= chunk.lo /\ chunk.lo <= chunk.hi /\ chunk.hi <= file_size

\* C5 as claimed: for 0 < S < W each of head, mid and tail is the whole
\* file, and no read leaves the file.
C5_SmallFileChunksAreWholeFile ==
    LastReadable /\ error = "none" /\ 0 < LastFile.size /\ LastFile.size < CHUNK_SIZE =>
        /\ Len(reads) = 3
        /\ \A i \in 1..3 : reads[i] = [lo |-> 0, hi |-> LastFile.size]
        /\ \A i \in 1..3 : InBounds(reads[i], LastFile.size)

\* C5, amended: for 0 < S < W head and tail are the whole file, mid is its
\* second half bytes[floor(S/2), S), and no read leaves the file.
C5_SmallFileHeadTailWhole ==
    LastReadable /\ 0 < LastFile.size /\ LastFile.size < CHUNK_SIZE =>
        /\ Len(reads) = 3
        /\ reads[1] = [lo |-> 0, hi |-> LastFile.size]
        /\ reads[2] = [lo |-> LastFile.size \div 2, hi |-> LastFile.size]
        /\ reads[3] = [lo |-> 0, hi |-> LastFile.size]
        /\ \A i \in 1..3 : InBounds(reads[i], LastFile.size)

\* A file of 2..W-1 bytes has been sampled: its mid chunk is not the whole file.
C5_Witness ==
    /\ LastReadable /\ 1 < LastFile.size /\ LastFile.size < CHUNK_SIZE
    /\ Len(reads) = 3
    /\ reads[2] # reads[1]

\* C6: for S > 0 the sampler reads head = [0, min(W, S)), then
\* mid = [floor(S/2), min(floor(S/2) + W, S)), then tail = [max(0, S - W), S);
\* each is at most W bytes, so at most 3W bytes are read.
C6_ThreeBoundedChunks ==
    LastReadable /\ LastFile.size > 0 =>
        LET S == LastFile.size
        IN  /\ reads = << [lo |-> 0, hi |-> Min(CHUNK_SIZE, S)],
                          [lo |-> S \div 2, hi |-> Min(S \div 2 + CHUNK_SIZE, S)],
                          [lo |-> Max(0, S - CHUNK_SIZE), hi |-> S] >>
            /\ \A i \in 1..3 : ChunkLen(reads[i]) <= CHUNK_SIZE
            /\ ChunkLen(reads[1]) + ChunkLen(reads[2]) + ChunkLen(reads[3]) <= 3 * CHUNK_SIZE

\* A file of more than 2W bytes has been sampled in three full windows.
C6_Witness ==
    /\ LastReadable /\ LastFile.size > 2 * CHUNK_SIZE
    /\ Len(reads) = 3
    /\ \A i \in 1..3 : ChunkLen(reads[i]) = CHUNK_SIZE

\* C7: avgEntropy is the mean of the entropies of the non-empty sampled
\* chunks, empty ones left out of sum and divisor; it is 0 when every
\* chunk is empty; the entropy of an empty chunk is 0.
C7_AvgOverNonEmptyChunks ==
    LastReadable /\ error = "none" =>
        LET kept == SelectSeq(reads, LAMBDA c : ~IsEmpty(c))
            avg == LastFeatures.avg_entropy
        IN  /\ X_features # <<>>
            /\ Len(reads) = 3
            /\ kept = <<>> => IsZero(avg)
            /\ kept # <<>> => avg.sum = kept /\ avg.den = Len(kept)
            /\ \A i \in 1..3 : IsEmpty(reads[i]) =>
                  calculate_entropy(reads[i]) = <<>> /\ get_entropy(reads[i]) = <<>>

\* The entropies of three non-empty chunks have been averaged.
C7_Witness ==
    /\ LastReadable /\ error = "none" /\ LastFile.size > 0
    /\ X_features # <<>>
    /\ LastFeatures.avg_entropy.den = 3
    /\ Len(LastFeatures.avg_entropy.sum) = 3

\* C10: the two feature extractors give the same avgEntropy for every
\* file: the value the running script appended is the value the other
\* script's extractor computes for that file.
C10_ExtractorsAgreeOnAvgEntropy ==
    LastReadable /\ error = "none" =>
        /\ X_features # <<>>
        /\ AvgEq(LastFeatures.avg_entropy,
                 IF script = "silesia"
                 THEN RealFeatures(LastFile).feats.avg_entropy
                 ELSE extract_features(LastFile).feats.avg_entropy)

\* Each script has extracted the features of a non-empty file; here silesia.
C10_Witness ==
    /\ script = "silesia" /\ LastReadable /\ error = "none" /\ LastFile.size > 0
    /\ X_features # <<>>
    /\ LastFeatures.avg_entropy.sum # <<>>

====
